---------------------------- MODULE Spec2Model ----------------------------
(***************************************************************************)
(* A model of the World Bank ETL pipeline: the scraper (get_country_list,  *)
(* get_country_data), the normalizer (process_data_for_db), the loader     *)
(* (create_database_from_data) and the setup script (setup_data).          *)
(*                                                                         *)
(* Text is a sequence of one-character strings, so that the regular        *)
(* expressions, strip(), replace(), float() and int() of the source are    *)
(* computed character by character.  An optional value (None in the        *)
(* source) is a sequence of length 0 or 1.                                 *)
(***************************************************************************)
EXTENDS Integers, Sequences, FiniteSets, TLC

(***************************************************************************)
(* Text primitives.                                                        *)
(***************************************************************************)
Digits == <<"0", "1", "2", "3", "4", "5", "6", "7", "8", "9">>
Lowers == <<"a", "b", "c", "d", "e", "f", "g", "h", "i", "j", "k", "l", "m",
            "n", "o", "p", "q", "r", "s", "t", "u", "v", "w", "x", "y", "z">>
Uppers == <<"A", "B", "C", "D", "E", "F", "G", "H", "I", "J", "K", "L", "M",
            "N", "O", "P", "Q", "R", "S", "T", "U", "V", "W", "X", "Y", "Z">>
Whitespace == {" "}

Range(s) == {s[i] : i \in DOMAIN s}
IsDigit(c) == c \in Range(Digits)
IsAlnum(c) == c \in Range(Digits) \cup Range(Lowers) \cup Range(Uppers)
IndexOf(c, s) == CHOOSE i \in DOMAIN s : s[i] = c
DigitVal(c) == IndexOf(c, Digits) - 1

\* str.lower() / str.upper()
LowerChar(c) == IF c \in Range(Uppers) THEN Lowers[IndexOf(c, Uppers)] ELSE c
UpperChar(c) == IF c \in Range(Lowers) THEN Uppers[IndexOf(c, Lowers)] ELSE c
Lower(s) == [i \in DOMAIN s |-> LowerChar(s[i])]
Upper(s) == [i \in DOMAIN s |-> UpperChar(s[i])]

\* s[:n]
Prefix(s, n) == SubSeq(s, 1, IF n < Len(s) THEN n ELSE Len(s))

\* str.strip()
RECURSIVE LStrip(_)
LStrip(s) == IF s # <<>> /\ Head(s) \in Whitespace THEN LStrip(Tail(s)) ELSE s
RECURSIVE RStrip(_)
RStrip(s) ==
    IF s # <<>> /\ s[Len(s)] \in Whitespace THEN RStrip(SubSeq(s, 1, Len(s) - 1)) ELSE s
Strip(s) == RStrip(LStrip(s))

StartsWith(s, p) == Len(p) <= Len(s) /\ SubSeq(s, 1, Len(p)) = p

\* sub in s
RECURSIVE Contains(_, _)
Contains(s, sub) ==
    \/ StartsWith(s, sub)
    \/ s # <<>> /\ Contains(Tail(s), sub)

\* s.replace(old, ""), old non-empty: every non-overlapping occurrence, left to right
RECURSIVE Remove(_, _)
Remove(s, old) ==
    IF s = <<>> THEN <<>>
    ELSE IF StartsWith(s, old) THEN Remove(SubSeq(s, Len(old) + 1, Len(s)), old)
         ELSE <<Head(s)>> \o Remove(Tail(s), old)

\* int(s) for a text of decimal digits
RECURSIVE DigitsToInt(_)
DigitsToInt(s) ==
    IF s = <<>> THEN 0 ELSE 10 * DigitsToInt(SubSeq(s, 1, Len(s) - 1)) + DigitVal(s[Len(s)])

\* str(n) for n >= 0
RECURSIVE IntToText(_)
IntToText(n) ==
    IF n < 10 THEN <<Digits[n + 1]>> ELSE IntToText(n \div 10) \o <<Digits[(n % 10) + 1]>>

(***************************************************************************)
(* float(): a float is the exact decimal m / 10^e with no trailing zero in *)
(* the fraction (so that "3.10" and "3.1" are the same number).  The text  *)
(* reaching float() holds only digits, "." and "-" (database.py line 73).  *)
(***************************************************************************)
RECURSIVE Normalise(_, _)
Normalise(m, e) ==
    IF e > 0 /\ m % 10 = 0 THEN Normalise(m \div 10, e - 1) ELSE [m |-> m, e |-> e]

IsDot(c) == c = "."
NotDot(c) == c # "."

\* Whether float(s) parses: an optional leading "-", then digits with at most one "."
IsFloatText(s) ==
    LET body == IF s # <<>> /\ Head(s) = "-" THEN Tail(s) ELSE s
    IN  /\ \A i \in DOMAIN body : IsDigit(body[i]) \/ body[i] = "."
        /\ Len(SelectSeq(body, IsDot)) <= 1
        /\ SelectSeq(body, IsDigit) # <<>>

\* float(s) for a text that parses
FloatOf(s) ==
    LET neg  == Head(s) = "-"
        body == IF neg THEN Tail(s) ELSE s
        dot  == IF "." \in Range(body) THEN IndexOf(".", body) ELSE Len(body) + 1
        frac == IF dot > Len(body) THEN 0 ELSE Len(body) - dot
        mant == DigitsToInt(SelectSeq(body, NotDot))
    IN  Normalise(IF neg THEN 0 - mant ELSE mant, frac)

(***************************************************************************)
(* The normalizer: process_data_for_db.                                    *)
(* A per-country record is [code, name, region, income_level, capital,     *)
(* indicators]; indicators is the dict in insertion order, a sequence of   *)
(* <<category, list>> with distinct categories; an indicator is            *)
(* [name, code, value, year] with value an optional text and year an       *)
(* optional integer.                                                       *)
(***************************************************************************)
\* database.py line 73: re.sub(r'[^\d.-]', '', value_str)
IsNumericChar(c) == IsDigit(c) \/ c = "." \/ c = "-"
\* StripNonNumeric, were the class [^\d] (the decimal point and the sign lost)
StripNonDigits(s) == SelectSeq(s, IsDigit)

StripNonNumeric(s) == SelectSeq(s, IsNumericChar)

\* lines 34-42: the row of the countries table
CountryRow(country) ==
    [country_code |-> country.code,
     name         |-> country.name,
     region       |-> country.region,
     income_level |-> country.income_level,
     capital      |-> country.capital,
     iso2_code    |-> IF Len(country.code) >= 2
                      THEN <<Lower(Prefix(country.code, 2))>> ELSE <<>>,
     iso3_code    |-> IF Len(country.code) >= 3
                      THEN <<Upper(Prefix(country.code, 3))>> ELSE <<>>]

\* AppendDefinition, were a later occurrence to overwrite the definition
AppendDefinitionLastWins(indicators, indicator, category) ==
    LET row == [indicator_code |-> indicator.code, name |-> indicator.name,
                category |-> category, description |-> <<>>,
                source |-> "Banco Mundial"]
    IN  IF \E i \in DOMAIN indicators : indicators[i].indicator_code = indicator.code
        THEN [i \in DOMAIN indicators |->
                 IF indicators[i].indicator_code = indicator.code
                 THEN row ELSE indicators[i]]
        ELSE Append(indicators, row)

\* lines 50-64: add the definition unless one with this code is already listed
AppendDefinition(indicators, indicator, category) ==
    IF \E i \in DOMAIN indicators : indicators[i].indicator_code = indicator.code
    THEN indicators
    ELSE Append(indicators,
                [indicator_code |-> indicator.code,
                 name           |-> indicator.name,
                 category       |-> category,
                 description    |-> <<>>,
                 source         |-> "Banco Mundial"])

\* line 67: indicator.get('value') is not None and indicator.get('year')
HasValueAndYear(indicator) ==
    /\ indicator.value # <<>>
    /\ indicator.year # <<>>
    /\ indicator.year[1] # 0

\* lines 66-85: add the value row when value and year are present and the
\* value parses; a ValueError is caught and the row skipped
AppendValue(values, country_code, indicator) ==
    IF ~HasValueAndYear(indicator) THEN values
    ELSE LET value_str == StripNonNumeric(indicator.value[1])
         IN  IF value_str = <<>> THEN values
             ELSE IF ~IsFloatText(value_str) THEN values
             ELSE Append(values,
                         [country_code   |-> country_code,
                          indicator_code |-> indicator.code,
                          year           |-> indicator.year[1],
                          value          |-> FloatOf(value_str)])

\* lines 46-85: one indicator of one category of one country
ProcessIndicator(acc, country_code, category, indicator) ==
    [acc EXCEPT
        !.indicators = AppendDefinition(@, indicator, category),
        !.indicator_values = AppendValue(@, country_code, indicator)]

RECURSIVE ProcessCategory(_, _, _, _)
ProcessCategory(acc, country_code, category, category_indicators) ==
    IF category_indicators = <<>> THEN acc
    ELSE ProcessCategory(
             ProcessIndicator(acc, country_code, category, Head(category_indicators)),
             country_code, category, Tail(category_indicators))

\* line 45: for category, category_indicators in country['indicators'].items()
RECURSIVE ProcessCategories(_, _, _)
ProcessCategories(acc, country_code, items) ==
    IF items = <<>> THEN acc
    ELSE ProcessCategories(
             ProcessCategory(acc, country_code, Head(items)[1], Head(items)[2]),
             country_code, Tail(items))

\* lines 31-85: one country
ProcessCountry(acc, country) ==
    ProcessCategories(
        [acc EXCEPT !.countries = Append(@, CountryRow(country))],
        country.code, country.indicators)

RECURSIVE ProcessCountries(_, _)
ProcessCountries(acc, countries_data) ==
    IF countries_data = <<>> THEN acc
    ELSE ProcessCountries(ProcessCountry(acc, Head(countries_data)), Tail(countries_data))

process_data_for_db(countries_data) ==
    ProcessCountries([countries |-> <<>>, indicators |-> <<>>, indicator_values |-> <<>>],
                     countries_data)

(***************************************************************************)
(* The extractor: get_country_list and get_country_data.                   *)
(* The listing page is the sequence of its <a href> elements in document   *)
(* order, each [href, text].  A detail page is [region, income_level,      *)
(* sections]: the text after the "Region" / "Income" label (optional) and  *)
(* the section-like elements in document order, each [heading, rows]; a    *)
(* row is [name, value], the text of its name-like and value-like          *)
(* sub-elements (optional).                                                *)
(***************************************************************************)
BASE_URL == <<"h", "t", "t", "p", "s", ":", "/", "/", "d", "a", "t", "a", ".",
              "w", "o", "r", "l", "d", "b", "a", "n", "k", ".", "o", "r", "g">>
CountryPrefix == <<"/", "c", "o", "u", "n", "t", "r", "y", "/">>
INDICATOR_CATEGORIES ==
    << <<"s", "o", "c", "i", "a", "l">>,
       <<"e", "c", "o", "n", "o", "m", "i", "c">>,
       <<"e", "n", "v", "i", "r", "o", "n", "m", "e", "n", "t">>,
       <<"i", "n", "s", "t", "i", "t", "u", "t", "i", "o", "n", "s">> >>

\* s.split(sep)[-1]: what follows the last sep
RECURSIVE AfterLast(_, _)
AfterLast(s, sep) ==
    IF sep \in Range(s) THEN AfterLast(SubSeq(s, IndexOf(sep, s) + 1, Len(s)), sep) ELSE s

\* s.split(sep)[0]: what precedes the first sep
BeforeFirst(s, sep) ==
    IF sep \in Range(s) THEN SubSeq(s, 1, IndexOf(sep, s) - 1) ELSE s

\* scraper.py lines 61-62: the code of a country link
IsCodeChar(c) == IsAlnum(c) \/ c = "-"
DeriveCode(href) == SelectSeq(BeforeFirst(AfterLast(href, "/"), "?"), IsCodeChar)

\* lines 57-68: the candidate of every link whose href starts with /country/
RECURSIVE CountryLinks(_)
CountryLinks(links) ==
    IF links = <<>> THEN <<>>
    ELSE LET link == Head(links)
         IN  IF link.href # <<>> /\ StartsWith(link.href, CountryPrefix)
             THEN << [url  |-> BASE_URL \o link.href,
                      code |-> DeriveCode(link.href),
                      name |-> Strip(link.text)] >> \o CountryLinks(Tail(links))
             ELSE CountryLinks(Tail(links))

\* UniqueLinksFrom, were the name not tested
RECURSIVE UniqueLinksNoNameTest(_, _)
UniqueLinksNoNameTest(country_links, seen_codes) ==
    IF country_links = <<>> THEN <<>>
    ELSE LET country == Head(country_links)
         IN  IF country.code \notin seen_codes
             THEN <<country>> \o UniqueLinksNoNameTest(Tail(country_links),
                                                       seen_codes \cup {country.code})
             ELSE UniqueLinksNoNameTest(Tail(country_links), seen_codes)

\* lines 71-76: keep a candidate whose code was not kept before and whose name
\* is not empty
RECURSIVE UniqueLinksFrom(_, _)
UniqueLinksFrom(country_links, seen_codes) ==
    IF country_links = <<>> THEN <<>>
    ELSE LET country == Head(country_links)
         IN  IF country.code \notin seen_codes /\ country.name # <<>>
             THEN <<country>> \o UniqueLinksFrom(Tail(country_links),
                                                 seen_codes \cup {country.code})
             ELSE UniqueLinksFrom(Tail(country_links), seen_codes)

UniqueLinks(country_links) == UniqueLinksFrom(country_links, {})

\* lines 45-90: the list for a page that was fetched; an exception gives <<>>
get_country_list(links, failed) ==
    IF failed THEN <<>> ELSE UniqueLinks(CountryLinks(links))

\* line 144: re.search(r'\((\d{4})\)', value_text), the first match
IsYearAt(s, i) ==
    /\ i + 5 <= Len(s)
    /\ s[i] = "("
    /\ \A k \in 1..4 : IsDigit(s[i + k])
    /\ s[i + 5] = ")"

HasYear(s) == \E i \in DOMAIN s : IsYearAt(s, i)

FirstYearAt(s) == CHOOSE i \in DOMAIN s : IsYearAt(s, i) /\ \A j \in 1..(i - 1) : ~IsYearAt(s, j)

DefaultYear == 2023

\* ExtractYear, were the value text not searched
ExtractYearDefaultOnly(value_text) == DefaultYear

\* lines 144-145: the year in parentheses, or the default
ExtractYear(value_text) ==
    IF HasYear(value_text)
    THEN DigitsToInt(SubSeq(value_text, FirstYearAt(value_text) + 1,
                            FirstYearAt(value_text) + 4))
    ELSE DefaultYear

\* line 148: re.sub(r'[^a-zA-Z0-9]', '_', indicator_name).lower()
Slug(indicator_name) ==
    Lower([i \in DOMAIN indicator_name |->
              IF IsAlnum(indicator_name[i]) THEN indicator_name[i] ELSE "_"])

\* line 154: value_text.replace(f"({year})", "").strip()
ValueWithoutYear(value_text, year) ==
    Strip(Remove(value_text, <<"(">> \o IntToText(year) \o <<")">>))

\* lines 139-156: the indicator of one row, none when the name-like or the
\* value-like element is missing
RowIndicator(row) ==
    IF row.name = <<>> \/ row.value = <<>> THEN <<>>
    ELSE LET indicator_name == Strip(row.name[1])
             value_text     == Strip(row.value[1])
             year           == ExtractYear(value_text)
         IN  << [name  |-> indicator_name,
                 code  |-> Slug(indicator_name),
                 value |-> <<ValueWithoutYear(value_text, year)>>,
                 year  |-> <<year>>] >>

RECURSIVE RowIndicators(_)
RowIndicators(rows) ==
    IF rows = <<>> THEN <<>> ELSE RowIndicator(Head(rows)) \o RowIndicators(Tail(rows))

\* section.get_text(): the heading, then the text of every row
RECURSIVE RowsText(_)
RowsText(rows) ==
    IF rows = <<>> THEN <<>>
    ELSE (IF Head(rows).name = <<>> THEN <<>> ELSE Head(rows).name[1])
         \o (IF Head(rows).value = <<>> THEN <<>> ELSE Head(rows).value[1])
         \o RowsText(Tail(rows))

SectionText(section) == section.heading \o RowsText(section.rows)

\* lines 131-156: the indicators of one category, over the sections that
\* mention the category
RECURSIVE CategoryIndicators(_, _)
CategoryIndicators(category, sections) ==
    IF sections = <<>> THEN <<>>
    ELSE (IF Contains(Lower(SectionText(Head(sections))), Lower(category))
          THEN RowIndicators(Head(sections).rows) ELSE <<>>)
         \o CategoryIndicators(category, Tail(sections))

OptionalStrip(t) == IF t = <<>> THEN <<>> ELSE <<Strip(t[1])>>

\* lines 96-168: the record of a country whose page was fetched and parsed
get_country_data(page, country_url, country_code, country_name) ==
    [name         |-> country_name,
     code         |-> country_code,
     url          |-> country_url,
     indicators   |-> [i \in DOMAIN INDICATOR_CATEGORIES |->
                          <<INDICATOR_CATEGORIES[i],
                            CategoryIndicators(INDICATOR_CATEGORIES[i], page.sections)>>],
     region       |-> OptionalStrip(page.region),
     income_level |-> OptionalStrip(page.income_level),
     capital      |-> <<>>]

(***************************************************************************)
(* The loader: create_database_from_data.                                  *)
(* The store holds the three tables, each [schema, rows]: schema is        *)
(* "absent" (no such table), "declared" (made by CREATE TABLE IF NOT       *)
(* EXISTS, with its keys and constraints) or "pandas" (dropped and made    *)
(* again by to_sql(if_exists="replace"), without them), and the set of     *)
(* indexes on indicator_values.                                            *)
(*                                                                         *)
(* A load runs its steps in order inside one try block.  fault names the   *)
(* step at which the environment raises (disk, lock, permissions), if any, *)
(* and whether a failing bulk write had already dropped the old table:     *)
(* both outcomes are possible, since DROP TABLE is not undone by the       *)
(* failure of the statements that follow it.                               *)
(***************************************************************************)
TableNames == {"countries", "indicators", "indicator_values"}
IndexNames == {"idx_country_code", "idx_indicator_code", "idx_year",
               "idx_country_indicator"}
NoFault == [step |-> "none", dropped |-> FALSE]
Faults ==
    {NoFault}
    \cup {[step |-> s, dropped |-> FALSE] : s \in {"connect", "schema", "indexes", "close"}}
    \cup {[step |-> s, dropped |-> d] : s \in TableNames, d \in BOOLEAN}

EmptyStore ==
    [countries        |-> [schema |-> "absent", rows |-> <<>>],
     indicators       |-> [schema |-> "absent", rows |-> <<>>],
     indicator_values |-> [schema |-> "absent", rows |-> <<>>],
     indexes          |-> {}]

\* database.py lines 103-142: CREATE TABLE IF NOT EXISTS, three times
CreateTableIfNotExists(table) ==
    IF table.schema = "absent" THEN [schema |-> "declared", rows |-> <<>>] ELSE table

CreateTables(s) ==
    [s EXCEPT !.countries = CreateTableIfNotExists(@),
              !.indicators = CreateTableIfNotExists(@),
              !.indicator_values = CreateTableIfNotExists(@)]

\* ToSqlReplace, were the frames written with if_exists='append'
ToSqlAppend(s, name, rows) ==
    [s EXCEPT ![name] = [schema |-> "pandas", rows |-> @.rows \o rows],
              !.indexes = IF name = "indicator_values" THEN {} ELSE @]

\* lines 148, 153, 158: df.to_sql(name, conn, if_exists="replace", index=False):
\* the table is dropped (its indexes with it), made again from the frame's
\* columns, and the frame's rows inserted
ToSqlReplace(s, name, rows) ==
    [s EXCEPT ![name] = [schema |-> "pandas", rows |-> rows],
              !.indexes = IF name = "indicator_values" THEN {} ELSE @]

\* a bulk write that raises: before anything was done, or after the drop
ToSqlFailed(s, name, dropped) ==
    IF dropped
    THEN [s EXCEPT ![name] = [schema |-> "absent", rows |-> <<>>],
                   !.indexes = IF name = "indicator_values" THEN {} ELSE @]
    ELSE s

\* lines 162-166: CREATE INDEX IF NOT EXISTS, four times
CreateIndexes(s) == [s EXCEPT !.indexes = IndexNames]

\* lines 93-168: the steps a load goes through when nothing raises; the
\* indicators and indicator_values writes are skipped for an empty frame
\* (lines 152, 157)
Plan(countries, indicators, indicator_values) ==
    <<"connect", "schema", "countries">>
    \o (IF indicators # <<>> THEN <<"indicators">> ELSE <<>>)
    \o (IF indicator_values # <<>> THEN <<"indicator_values">> ELSE <<>>)
    \o <<"indexes", "close">>

\* Whether a step raises: the environment's fault, or the frame of an empty
\* countries list, which has no columns to make a table from
Raises(step, args, fault) ==
    \/ fault.step = step
    \/ step = "countries" /\ args.countries = <<>>

\* the store after a step that completed
StepDone(s, step, args) ==
    CASE step = "schema"  -> CreateTables(s)
      [] step \in TableNames -> ToSqlReplace(s, step, args[step])
      [] step = "indexes" -> CreateIndexes(s)
      [] OTHER -> s

\* the store after a step that raised
StepRaised(s, step, fault) ==
    IF step \in TableNames THEN ToSqlFailed(s, step, fault.dropped) ELSE s

\* RunSteps, were each step in a try block of its own
RECURSIVE RunStepsNoAbort(_, _, _, _)
RunStepsNoAbort(run, plan, args, fault) ==
    IF plan = <<>> THEN run
    ELSE LET step == Head(plan)
             entered == [run EXCEPT !.steps =
                            Append(@, [step |-> step, raised |-> Raises(step, args, fault)])]
         IN  IF Raises(step, args, fault)
             THEN RunStepsNoAbort(
                      [entered EXCEPT !.store = StepRaised(@, step, fault),
                                      !.result = FALSE],
                      Tail(plan), args, fault)
             ELSE RunStepsNoAbort([entered EXCEPT !.store = StepDone(@, step, args)],
                                  Tail(plan), args, fault)

\* lines 93-174: the try block and its except clause.  run is
\* [store, steps, result]: the store, the steps entered so far (each with
\* whether it raised), and the value returned
RECURSIVE RunSteps(_, _, _, _)
RunSteps(run, plan, args, fault) ==
    IF plan = <<>> THEN run
    ELSE LET step == Head(plan)
             entered == [run EXCEPT !.steps =
                            Append(@, [step |-> step, raised |-> Raises(step, args, fault)])]
         IN  IF Raises(step, args, fault)
             THEN [entered EXCEPT !.store = StepRaised(@, step, fault),
                                  !.result = FALSE]
             ELSE RunSteps([entered EXCEPT !.store = StepDone(@, step, args)],
                           Tail(plan), args, fault)

create_database_from_data(s, countries, indicators, indicator_values, fault) ==
    LET args == [countries |-> countries, indicators |-> indicators,
                 indicator_values |-> indicator_values]
    IN  RunSteps([store |-> s, steps |-> <<>>, result |-> TRUE],
                 Plan(countries, indicators, indicator_values), args, fault)

(***************************************************************************)
(* The query service: get_country_profile (api.py).  A response is         *)
(* [status, country, profile]: 200 with the country row and the profile,   *)
(* the dict of category to entries in insertion order; 404 for a code with *)
(* no row in countries; 500 when a table of the query does not exist.      *)
(***************************************************************************)
\* the printable ASCII characters in code order, the grave accent left out:
\* SQLite compares text byte by byte
Ascii == <<" ", "!", "\"", "#", "$", "%", "&", "'", "(", ")", "*", "+",
          ",", "-", ".", "/", "0", "1", "2", "3", "4", "5", "6", "7", "8",
          "9", ":", ";", "<", "=", ">", "?", "@", "A", "B", "C", "D", "E",
          "F", "G", "H", "I", "J", "K", "L", "M", "N", "O", "P", "Q", "R",
          "S", "T", "U", "V", "W", "X", "Y", "Z", "[", "\\", "]", "^", "_",
          "a", "b", "c", "d", "e", "f", "g", "h", "i", "j", "k", "l",
          "m", "n", "o", "p", "q", "r", "s", "t", "u", "v", "w", "x", "y",
          "z", "{", "|", "}", "~">>
Ord(c) == IndexOf(c, Ascii)

\* a <= b for SQLite's BINARY collation
RECURSIVE TextLeq(_, _)
TextLeq(a, b) ==
    IF a = <<>> THEN TRUE
    ELSE IF b = <<>> THEN FALSE
    ELSE IF Head(a) = Head(b) THEN TextLeq(Tail(a), Tail(b))
    ELSE Ord(Head(a)) < Ord(Head(b))

\* api.py lines 184-189: indicator_values JOIN indicators ON indicator_code,
\* WHERE country_code = ?: the pairs <<row of indicator_values, row of indicators>>
Joined(s, country_code) ==
    {vd \in (DOMAIN s.indicator_values.rows) \X (DOMAIN s.indicators.rows) :
        /\ s.indicator_values.rows[vd[1]].country_code = country_code
        /\ s.indicator_values.rows[vd[1]].indicator_code
               = s.indicators.rows[vd[2]].indicator_code}

JoinedCode(s, vd) == s.indicators.rows[vd[2]].indicator_code
JoinedYear(s, vd) == s.indicator_values.rows[vd[1]].year

\* RankedFirst, were the window ordered by year ASC
RankedFirstOldest(s, country_code) ==
    LET joined == Joined(s, country_code)
        codes  == {JoinedCode(s, vd) : vd \in joined}
    IN  {pick \in [codes -> joined] :
            \A c \in codes :
                /\ JoinedCode(s, pick[c]) = c
                /\ \A vd \in joined :
                       JoinedCode(s, vd) = c => JoinedYear(s, vd) >= JoinedYear(s, pick[c])}

\* lines 183, 199-200: ROW_NUMBER() OVER (PARTITION BY i.indicator_code ORDER BY
\* iv.year DESC) = 1: for each code one joined row of the greatest year, any
\* of them when several rows have that year
RankedFirst(s, country_code) ==
    LET joined == Joined(s, country_code)
        codes  == {JoinedCode(s, vd) : vd \in joined}
    IN  {pick \in [codes -> joined] :
            \A c \in codes :
                /\ JoinedCode(s, pick[c]) = c
                /\ \A vd \in joined :
                       JoinedCode(s, vd) = c => JoinedYear(s, vd) <= JoinedYear(s, pick[c])}

\* lines 191-196: the columns selected
Selected(s, vd) ==
    [indicator_code |-> s.indicators.rows[vd[2]].indicator_code,
     name           |-> s.indicators.rows[vd[2]].name,
     category       |-> s.indicators.rows[vd[2]].category,
     year           |-> s.indicator_values.rows[vd[1]].year,
     value          |-> s.indicator_values.rows[vd[1]].value]

\* lines 201-202: ORDER BY category, name
OrderedBefore(a, b) ==
    IF a.category = b.category THEN TextLeq(a.name, b.name)
    ELSE TextLeq(a.category, b.category)

\* lines 205-206: the rows fetched: the selected rows in an order ORDER BY allows
Fetched(s, pick) ==
    {rows \in [1..Cardinality(DOMAIN pick) -> {Selected(s, pick[c]) : c \in DOMAIN pick}] :
        /\ \A i, j \in DOMAIN rows : rows[i] = rows[j] => i = j
        /\ \A i, j \in DOMAIN rows : i < j => OrderedBefore(rows[i], rows[j])}

\* line 211: indicator["category"] or "other"
CategoryOrOther(category) ==
    IF category = <<>> THEN <<"o", "t", "h", "e", "r">> ELSE category

\* lines 216-221: the entry of one row
ProfileEntry(row) ==
    [indicator_code |-> row.indicator_code, name |-> row.name,
     value |-> row.value, year |-> row.year]

\* lines 209-221: the dict of category to entries
RECURSIVE Categories(_, _)
Categories(categories, rows) ==
    IF rows = <<>> THEN categories
    ELSE LET category == CategoryOrOther(Head(rows).category)
             entry    == ProfileEntry(Head(rows))
         IN  IF \E k \in DOMAIN categories : categories[k][1] = category
             THEN Categories(
                      [k \in DOMAIN categories |->
                          IF categories[k][1] = category
                          THEN <<category, Append(categories[k][2], entry)>>
                          ELSE categories[k]],
                      Tail(rows))
             ELSE Categories(Append(categories, <<category, <<entry>> >>), Tail(rows))

\* lines 159-226: the responses the store allows for a country code
get_country_profile(s, country_code) ==
    IF s.countries.schema = "absent"
    THEN {[status |-> 500, country |-> <<>>, profile |-> <<>>]}
    ELSE LET Match(row) == row.country_code = country_code
             found == SelectSeq(s.countries.rows, Match)
         IN  IF found = <<>>
             THEN {[status |-> 404, country |-> <<>>, profile |-> <<>>]}
             ELSE IF "absent" \in {s.indicators.schema, s.indicator_values.schema}
             THEN {[status |-> 500, country |-> <<>>, profile |-> <<>>]}
             ELSE {[status |-> 200, country |-> <<Head(found)>>,
                    profile |-> Categories(<<>>, rows)] :
                      rows \in UNION {Fetched(s, pick) : pick \in RankedFirst(s, country_code)}}

(***************************************************************************)
(* The setup script: setup_data.                                           *)
(***************************************************************************)
\* s[:n] of Python, n of either sign
PySliceTo(s, n) ==
    IF n >= 0 THEN Prefix(s, n)
    ELSE IF Len(s) + n > 0 THEN Prefix(s, Len(s) + n) ELSE <<>>

\* setup.py lines 31-33: an empty list aborts the run
AfterList(countries) == IF countries = <<>> THEN "abort" ELSE "loop"

\* LoopStep, were a failure to discard the records kept so far
LoopStepForgetOnFailure(countries_so_far, country_data) ==
    IF country_data # <<>> THEN Append(countries_so_far, country_data[1]) ELSE <<>>

\* lines 38-40: a record is kept, a None is skipped
LoopStep(countries_so_far, country_data) ==
    IF country_data # <<>> THEN Append(countries_so_far, country_data[1])
    ELSE countries_so_far

\* AfterLoop, were the load attempted with no record
AfterLoopAlwaysLoad(countries_so_far) == "load"

\* lines 42-44: no record at all aborts the run
AfterLoop(countries_so_far) == IF countries_so_far = <<>> THEN "abort" ELSE "load"

(***************************************************************************)
(* Inputs.                                                                 *)
(***************************************************************************)
None == <<>>
Some(x) == <<x>>

MaxRecords == 2
MaxLinks == 3
MaxLimit == 2

BRA == <<"B", "R", "A">>
ARG == <<"A", "R", "G">>
Brazil == <<"B", "r", "a", "z", "i", "l">>
Argentina == <<"A", "r", "g", "e", "n", "t", "i", "n", "a">>
economic == INDICATOR_CATEGORIES[2]
social == INDICATOR_CATEGORIES[1]

Indicator(name, code, value, year) ==
    [name |-> name, code |-> code, value |-> value, year |-> year]

Country(code, name, indicators) ==
    [code |-> code, name |-> name, region |-> None, income_level |-> None,
     capital |-> None, indicators |-> indicators]

\* The record of the end-to-end scenario: the year omitted, the value text raw
ScenarioRecord ==
    Country(BRA, Brazil,
            << <<economic, <<Indicator(<<"G", "D", "P">>, <<"g", "d", "p">>, Some(<<"1", ",", "4", "4", "4", ".", "7", " ", "(", "2", "0", "2", "0", ")">>), None)>> >> >>)

\* Records handed to process_data_for_db directly
RawRecords ==
    { ScenarioRecord,
      \* one indicator and year under two categories of one country
      Country(BRA, Brazil,
              << <<economic, <<Indicator(<<"G", "D", "P">>, <<"g", "d", "p">>, Some(<<"1", ",", "4", "4", "4", ".", "7">>), Some(2020))>> >>,
                 <<social, <<Indicator(<<"G", "D", "P">>, <<"g", "d", "p">>, Some(<<"1", ",", "4", "4", "4", ".", "7">>), Some(2020))>> >> >>),
      \* the same code under another name and category; an unparsable value
      Country(ARG, Argentina,
              << <<social, <<Indicator(<<"G", "d", "p">>, <<"g", "d", "p">>, Some(<<"3", ".", "1", "4", "%">>), Some(2021)),
                             Indicator(<<"P", "o", "p">>, <<"p", "o", "p">>, Some(<<"N", "/", "A">>), Some(2020))>> >>,
                 <<economic, <<>> >> >>),
      \* a second record with the code BRA
      Country(BRA, <<"B", "r", "a", "s", "i", "l">>,
              << <<economic, <<Indicator(<<"G", "D", "P">>, <<"g", "d", "p">>, Some(<<"$", "3", ".", "1", "4">>), Some(2020)),
                               Indicator(<<"P", "o", "p">>, <<"p", "o", "p">>, Some(<<"3", ".", "1", "4">>), Some(2019))>> >> >>),
      \* a short code, no indicators
      Country(<<"b", "r">>, Brazil, <<>>),
      \* an empty value, a value that is no number, a value that is None
      Country(ARG, Argentina,
              << <<economic, <<Indicator(<<"P", "o", "p">>, <<"p", "o", "p">>, Some(<<>>), Some(2020)),
                               Indicator(<<"P", "o", "p">>, <<"p", "o", "p">>, Some(<<"1", ".", "2", ".", "3">>), Some(2021)),
                               Indicator(<<"A", "r", "e", "a">>, <<"a", "r", "e", "a">>, None, Some(2021)),
                               Indicator(<<"A", "r", "e", "a">>, <<"a", "r", "e", "a">>, Some(<<"-", "5">>), Some(2021))>> >> >>) }

\* The detail page of the scenario: one economic row, the year in the value text
ScenarioPage ==
    [region |-> None, income_level |-> None,
     sections |-> << [heading |-> <<"E", "c", "o", "n", "o", "m", "i", "c">>,
                      rows |-> << [name |-> Some(<<"G", "D", "P">>), value |-> Some(<<"1", ",", "4", "4", "4", ".", "7", " ", "(", "2", "0", "2", "0", ")">>)] >>] >>]

DetailPages ==
    { ScenarioPage,
      \* a section that mentions two categories; names with one slug; no year
      [region |-> Some(<<" ", "L", "a", "t", "i", "n", " ", "A", "m", "e", "r", "i", "c", "a", " ">>), income_level |-> Some(<<"H", "i", "g", "h", " ", "i", "n", "c", "o", "m", "e">>),
       sections |-> << [heading |-> <<"S", "o", "c", "i", "a", "l", " ", "a", "n", "d", " ", "e", "c", "o", "n", "o", "m", "i", "c", " ", "d", "a", "t", "a">>,
                        rows |-> << [name |-> Some(<<" ", "G", "D", "P", " ">>), value |-> Some(<<"3", ".", "1", "4", "%">>)],
                                    [name |-> Some(<<"G", "d", "p">>), value |-> Some(<<"2", " ", "(", "2", "0", "1", "9", ")">>)],
                                    [name |-> Some(<<"P", "o", "p">>), value |-> None] >>] >>],
      \* nothing to extract
      [region |-> None, income_level |-> None, sections |-> <<>>] }

Entries ==
    { [url |-> BASE_URL \o CountryPrefix \o BRA, code |-> BRA, name |-> Brazil],
      [url |-> BASE_URL \o CountryPrefix \o ARG, code |-> ARG, name |-> Argentina] }

\* <a href> elements of a listing page
Link(href, text) == [href |-> href, text |-> text]

LinkPool ==
    { Link(<<"/", "c", "o", "u", "n", "t", "r", "y", "/", "b", "r", "a", "z", "i", "l", "?", "v", "i", "e", "w", "=", "c", "h", "a", "r", "t">>, Brazil),
      Link(<<"/", "c", "o", "u", "n", "t", "r", "y", "/", "b", "r", "a", "z", "i", "l">>, <<" ", "B", "r", "a", "z", "i", "l", " ", "(", "B", "R", ")", " ">>),
      Link(<<"/", "c", "o", "u", "n", "t", "r", "y", "/", "b", "r", "a", "z", "i", "l">>, <<" ", " ">>),
      Link(<<"/", "c", "o", "u", "n", "t", "r", "y", "/", "A", "R">>, Argentina),
      Link(<<"/", "i", "n", "d", "i", "c", "a", "t", "o", "r", "/", "g", "d", "p">>, <<"G", "D", "P">>),
      Link(<<"/", "c", "o", "u", "n", "t", "r", "y", "/">>, <<"A", "l", "l">>) }

RECURSIVE SeqsUpTo(_, _)
SeqsUpTo(S, n) ==
    IF n = 0 THEN {<<>>}
    ELSE SeqsUpTo(S, n - 1)
         \cup {Append(s, x) : s \in {q \in SeqsUpTo(S, n - 1) : Len(q) = n - 1}, x \in S}

ListingPages ==
    { <<>>,
      << Link(<<"/", "c", "o", "u", "n", "t", "r", "y", "/", "b", "r", "a", "z", "i", "l", "?", "v", "i", "e", "w", "=", "c", "h", "a", "r", "t">>, Brazil) >>,
      << Link(<<"/", "c", "o", "u", "n", "t", "r", "y", "/", "b", "r", "a", "z", "i", "l">>, <<" ", " ">>), Link(<<"/", "c", "o", "u", "n", "t", "r", "y", "/", "A", "R">>, Argentina), Link(<<"/", "c", "o", "u", "n", "t", "r", "y", "/", "b", "r", "a", "z", "i", "l", "?", "v", "i", "e", "w", "=", "c", "h", "a", "r", "t">>, Brazil) >>,
      << Link(<<"/", "c", "o", "u", "n", "t", "r", "y", "/", "b", "r", "a", "z", "i", "l", "?", "v", "i", "e", "w", "=", "c", "h", "a", "r", "t">>, Brazil), Link(<<"/", "c", "o", "u", "n", "t", "r", "y", "/", "A", "R">>, Argentina), Link(<<"/", "c", "o", "u", "n", "t", "r", "y", "/", "c", "h", "i", "l", "e">>, <<"C", "h", "i", "l", "e">>) >> }

\* countries_data of the loads
LoaderInputs ==
    { <<>>,
      << Country(BRA, Brazil,
                 << <<economic, <<Indicator(<<"G", "D", "P">>, <<"g", "d", "p">>, Some(<<"1", ",", "4", "4", "4", ".", "7">>), Some(2020))>> >> >>) >>,
      << Country(ARG, Argentina, <<>>) >>,
      << Country(ARG, Argentina,
                 << <<social, <<Indicator(<<"P", "o", "p">>, <<"p", "o", "p">>, Some(<<"N", "/", "A">>), Some(2020))>> >> >>) >>,
      << Country(BRA, Brazil,
                 << <<economic, <<Indicator(<<"G", "D", "P">>, <<"g", "d", "p">>, Some(<<"3", ".", "1", "4">>), Some(2019)),
                                  Indicator(<<"G", "D", "P">>, <<"g", "d", "p">>, Some(<<"$", "3", ".", "1", "4">>), Some(2019))>> >> >>),
         Country(ARG, Argentina,
                 << <<social, <<Indicator(<<"P", "o", "p">>, <<"p", "o", "p">>, Some(<<"-", "5">>), Some(2021))>> >> >>) >>,
      \* one indicator of one country in several years, one year twice
      << Country(BRA, Brazil,
                 << <<economic, <<Indicator(<<"G", "D", "P">>, <<"g", "d", "p">>, Some(<<"3", ".", "1", "4">>), Some(2019)),
                                  Indicator(<<"G", "D", "P">>, <<"g", "d", "p">>, Some(<<"1", ",", "4", "4", "4", ".", "7">>), Some(2020)),
                                  Indicator(<<"G", "D", "P">>, <<"g", "d", "p">>, Some(<<"-", "5">>), Some(2020)),
                                  Indicator(<<"P", "o", "p">>, <<"p", "o", "p">>, Some(<<"-", "5">>), Some(2021)),
                                  Indicator(<<"A", "r", "e", "a">>, <<"a", "r", "e", "a">>, Some(<<"N", "/", "A">>), Some(2021))>> >> >>) >> }

(***************************************************************************)
(* State.                                                                  *)
(***************************************************************************)
VARIABLES
    countries_data,  \* the records handed to process_data_for_db
    sources,         \* per record: the page it was extracted from, if any
    output,          \* what process_data_for_db returned, once called
    links,           \* the <a href> elements of the listing page
    list_call,       \* the call of get_country_list: [failed, result]
    store,           \* the SQLite database
    call,            \* the last create_database_from_data: [args, fault, steps, result]
    all_ok,          \* no load has returned False so far
    profile,         \* the last get_country_profile since the last load: [code, response]
    repeated,        \* the last load had the arguments and the fault of the load before it
    pc,              \* setup_data: where the run is
    limit,           \* setup_data: its argument
    countries,       \* setup_data: the country list
    idx,             \* setup_data: the next entry of countries[:limit]
    fetched,         \* setup_data: per country asked for, [entry, data]
    events,          \* the HTTP requests and the sleeps, in order
    ret              \* setup_data: the value returned

vars == <<countries_data, sources, output, links, list_call, store, call, all_ok,
          profile, repeated, pc, limit, countries, idx, fetched, events, ret>>

normalizerVars == <<countries_data, sources, output>>
listVars == <<links, list_call>>
loaderVars == <<store, call, all_ok, profile, repeated>>
setupVars == <<pc, limit, countries, idx, fetched, events, ret>>

NormalizerIdle == countries_data = <<>> /\ sources = <<>> /\ output = None
ListIdle == links = <<>> /\ list_call = None
LoaderIdle == store = EmptyStore /\ call = None /\ all_ok = TRUE /\ profile = None
              /\ repeated = FALSE
SetupIdle ==
    /\ pc = "idle" /\ limit = 0 /\ countries = <<>> /\ idx = 0
    /\ fetched = <<>> /\ events = <<>> /\ ret = None

(***************************************************************************)
(* The normalizer on bounded inputs: records given directly, or extracted  *)
(* from a detail page by get_country_data.                                 *)
(***************************************************************************)
InitNormalizer == NormalizerIdle /\ ListIdle /\ LoaderIdle /\ SetupIdle

GiveRecord(record) ==
    /\ output = None
    /\ Len(countries_data) < MaxRecords
    /\ countries_data' = Append(countries_data, record)
    /\ sources' = Append(sources, None)
    /\ UNCHANGED <<output, listVars, loaderVars, setupVars>>

ExtractRecord(page, entry) ==
    /\ output = None
    /\ Len(countries_data) < MaxRecords
    /\ countries_data' =
           Append(countries_data, get_country_data(page, entry.url, entry.code, entry.name))
    /\ sources' = Append(sources, Some(page))
    /\ UNCHANGED <<output, listVars, loaderVars, setupVars>>

ProcessDataForDb ==
    /\ output = None
    /\ output' = Some(process_data_for_db(countries_data))
    /\ UNCHANGED <<countries_data, sources, listVars, loaderVars, setupVars>>

NextNormalizer ==
    \/ \E record \in RawRecords : GiveRecord(record)
    \/ \E page \in DetailPages, entry \in Entries : ExtractRecord(page, entry)
    \/ ProcessDataForDb

SpecNormalizer == InitNormalizer /\ [][NextNormalizer]_vars

(***************************************************************************)
(* get_country_list on bounded listing pages.                              *)
(***************************************************************************)
InitList ==
    /\ links \in SeqsUpTo(LinkPool, MaxLinks)
    /\ list_call = None
    /\ NormalizerIdle /\ LoaderIdle /\ SetupIdle

GetCountryList(failed) ==
    /\ list_call = None
    /\ list_call' = Some([failed |-> failed, result |-> get_country_list(links, failed)])
    /\ UNCHANGED <<links, normalizerVars, loaderVars, setupVars>>

NextList == \E failed \in BOOLEAN : GetCountryList(failed)

SpecList == InitList /\ [][NextList]_vars

(***************************************************************************)
(* Loads, one after the other, of what process_data_for_db returns.        *)
(***************************************************************************)
InitLoader == LoaderIdle /\ NormalizerIdle /\ ListIdle /\ SetupIdle

\* what process_data_for_db returns for the inputs of the loads
LoadArgs == {process_data_for_db(input) : input \in LoaderInputs}

Load(args, fault) ==
    /\ fault = NoFault \/ fault.step \in Range(Plan(args.countries, args.indicators,
                                                     args.indicator_values))
    /\ \E run \in {create_database_from_data(store, args.countries, args.indicators,
                                          args.indicator_values, fault)} :
           /\ store' = run.store
           /\ call' = Some([args |-> args, fault |-> fault, steps |-> run.steps,
                            result |-> run.result])
           /\ all_ok' = (all_ok /\ run.result)
    /\ profile' = None
    /\ repeated' = (call # None /\ call[1].args = args /\ call[1].fault = fault)
    /\ UNCHANGED <<normalizerVars, listVars, setupVars>>

NextLoader == \E args \in LoadArgs, fault \in Faults : Load(args, fault)

SpecLoader == InitLoader /\ [][NextLoader]_vars

(***************************************************************************)
(* One run of setup_data: the country list, the loop over countries[:limit]*)
(* and the load.  Every fetch may fail; every load step may fail.          *)
(***************************************************************************)
InitSetup ==
    /\ pc = "start"
    /\ limit \in 0..MaxLimit
    /\ countries = <<>> /\ idx = 0 /\ fetched = <<>> /\ events = <<>> /\ ret = None
    /\ NormalizerIdle /\ ListIdle /\ LoaderIdle

\* setup.py lines 29-33; scraper.py lines 45-90: one request, no sleep
SetupGetCountryList(page, failed) ==
    /\ pc = "start"
    /\ events' = Append(events, "request")
    /\ countries' = get_country_list(page, failed)
    /\ idx' = 1
    /\ IF AfterList(countries') = "abort"
       THEN pc' = "done" /\ ret' = Some(FALSE)
       ELSE pc' = "loop" /\ ret' = ret
    /\ UNCHANGED <<limit, fetched, normalizerVars, listVars, loaderVars>>

\* setup.py lines 37-40; scraper.py lines 96-172: one request, and the sleep
\* of line 166 when nothing raised.  data is None when the request, the
\* parse or the write of the raw file raised
SetupGetCountryData(data) ==
    /\ pc = "loop"
    /\ idx <= Len(PySliceTo(countries, limit))
    /\ LET country == PySliceTo(countries, limit)[idx]
           country_data ==
               IF data = None THEN None
               ELSE Some(get_country_data(data[1], country.url, country.code,
                                          country.name))
       IN  /\ events' = events \o <<"request">>
                        \o (IF country_data # None THEN <<"sleep">> ELSE <<>>)
           /\ fetched' = Append(fetched, [entry |-> country, data |-> country_data])
           /\ countries_data' = LoopStep(countries_data, country_data)
    /\ idx' = idx + 1
    /\ UNCHANGED <<pc, limit, countries, ret, sources, output, listVars, loaderVars>>

\* setup.py lines 42-44
SetupAbort ==
    /\ pc = "loop"
    /\ idx > Len(PySliceTo(countries, limit))
    /\ AfterLoop(countries_data) = "abort"
    /\ pc' = "done"
    /\ ret' = Some(FALSE)
    /\ UNCHANGED <<limit, countries, idx, fetched, events, normalizerVars, listVars,
                   loaderVars>>

\* setup.py lines 47-50
SetupProcessAndLoad(fault) ==
    /\ pc = "loop"
    /\ idx > Len(PySliceTo(countries, limit))
    /\ AfterLoop(countries_data) = "load"
    /\ \E out \in {process_data_for_db(countries_data)} :
       /\ fault = NoFault \/ fault.step \in Range(Plan(out.countries, out.indicators,
                                                        out.indicator_values))
       /\ \E run \in {create_database_from_data(store, out.countries, out.indicators,
                                                out.indicator_values, fault)} :
           /\ output' = Some(out)
           /\ store' = run.store
           /\ call' = Some([args |-> out, fault |-> fault, steps |-> run.steps,
                            result |-> run.result])
           /\ all_ok' = (all_ok /\ run.result)
           /\ ret' = Some(run.result)
    /\ profile' = None
    /\ repeated' = FALSE
    /\ pc' = "done"
    /\ UNCHANGED <<limit, countries, idx, fetched, events, countries_data, sources,
                   listVars>>

NextSetup ==
    \/ \E page \in ListingPages, failed \in BOOLEAN : SetupGetCountryList(page, failed)
    \/ \E data \in {None} \cup {Some(page) : page \in DetailPages} :
           SetupGetCountryData(data)
    \/ SetupAbort
    \/ \E fault \in Faults : SetupProcessAndLoad(fault)

SpecSetup == InitSetup /\ [][NextSetup]_vars

(***************************************************************************)
(* Properties.                                                             *)
(***************************************************************************)
SameTriple(a, b) ==
    /\ a.country_code = b.country_code
    /\ a.indicator_code = b.indicator_code
    /\ a.year = b.year

\* C1: after a successful create_database_from_data, each of the three
\* tables holds exactly the rows of the collection supplied to that call,
\* whatever the store held before, empty collections included.
C1_TablesHoldSupplied ==
    (call # None /\ call[1].result) =>
        \A name \in TableNames : store[name].rows = call[1].args[name]

\* C2: in the output of process_data_for_db, the triple (country_code,
\* indicator_code, year) is unique among the indicator values.
C2_TriplesUnique ==
    output # None =>
        LET values == output[1].indicator_values
        IN  \A i, j \in DOMAIN values : SameTriple(values[i], values[j]) => i = j

\* C3: after any sequence of successful loads, every row of indicator_values
\* references a country_code of the countries table and an indicator_code of
\* the indicators table.
C3_ValuesReference ==
    all_ok =>
        \A i \in DOMAIN store.indicator_values.rows :
            LET row == store.indicator_values.rows[i]
            IN  /\ \E c \in DOMAIN store.countries.rows :
                       store.countries.rows[c].country_code = row.country_code
                /\ \E d \in DOMAIN store.indicators.rows :
                       store.indicators.rows[d].indicator_code = row.indicator_code

ScenarioCountries == <<BRA>>
ScenarioIndicators == << [indicator_code |-> <<"g", "d", "p">>, name |-> <<"G", "D", "P">>, category |-> economic] >>
ScenarioValue ==
    [country_code |-> BRA, indicator_code |-> <<"g", "d", "p">>, year |-> 2020,
     value |-> [m |-> 14447, e |-> 1]]

CountryCodes(out) == [i \in DOMAIN out.countries |-> out.countries[i].country_code]
Definitions(out) ==
    [i \in DOMAIN out.indicators |->
        [indicator_code |-> out.indicators[i].indicator_code,
         name |-> out.indicators[i].name,
         category |-> out.indicators[i].category]]

FromScenarioPage ==
    /\ sources = <<Some(ScenarioPage)>>
    /\ countries_data[1].code = BRA
    /\ countries_data[1].name = Brazil

\* C4 as stated: the record of the scenario, its year omitted and its value
\* the text "1,444.7 (2020)", handed to the normalizer gives country BRA,
\* indicator gdp of category economic and exactly the value row
\* (BRA, gdp, 2020, 1444.7).
C4_ScenarioFromRecord ==
    (output # None /\ countries_data = <<ScenarioRecord>>) =>
        /\ CountryCodes(output[1]) = ScenarioCountries
        /\ Definitions(output[1]) = ScenarioIndicators
        /\ output[1].indicator_values = <<ScenarioValue>>

\* C4 as amended: the scenario holds of the detail page of BRA whose economic
\* section has the row GDP with the value text "1,444.7 (2020)": the
\* extractor parses the year from the value text and the pipeline gives
\* country BRA, indicator gdp of category economic and exactly the value row
\* (BRA, gdp, 2020, 1444.7).  The record with the year omitted, handed to
\* the normalizer, gives the country and the indicator and no value row.
C4_ScenarioFromPage ==
    output # None =>
        /\ FromScenarioPage =>
               /\ CountryCodes(output[1]) = ScenarioCountries
               /\ Definitions(output[1]) = ScenarioIndicators
               /\ output[1].indicator_values = <<ScenarioValue>>
        /\ countries_data = <<ScenarioRecord>> =>
               /\ CountryCodes(output[1]) = ScenarioCountries
               /\ Definitions(output[1]) = ScenarioIndicators
               /\ output[1].indicator_values = <<>>

C4_Witness ==
    /\ output # None
    /\ FromScenarioPage
    /\ Len(output[1].indicator_values) = 1
    /\ output[1].indicator_values[1].year = 2020

\* the candidates of get_country_list, and the first of a code
Candidates == CountryLinks(links)
FirstSeen(cands, code) ==
    CHOOSE i \in DOMAIN cands :
        cands[i].code = code /\ \A j \in 1..(i - 1) : cands[j].code # code
Named(cands, i) == cands[i].name # <<>>
FirstNamed(cands, code) ==
    CHOOSE i \in DOMAIN cands :
        /\ cands[i].code = code /\ Named(cands, i)
        /\ \A j \in 1..(i - 1) : ~(cands[j].code = code /\ Named(cands, j))
EntriesOf(result, code) == {k \in DOMAIN result : result[k].code = code}

\* C5 as stated: for every code on a candidate link, exactly one entry with
\* that code is in the list, the first-seen candidate with that code; no
\* entry has an empty name; the list is in first-seen order.
C5_FirstSeenSurvives ==
    (list_call # None /\ ~list_call[1].failed) =>
        LET result == list_call[1].result
        IN  /\ \A i \in DOMAIN Candidates :
                   /\ Cardinality(EntriesOf(result, Candidates[i].code)) = 1
                   /\ \A k \in EntriesOf(result, Candidates[i].code) :
                          result[k] = Candidates[FirstSeen(Candidates, Candidates[i].code)]
            /\ \A k \in DOMAIN result : result[k].name # <<>>
            /\ \A k, l \in DOMAIN result :
                   k < l => FirstSeen(Candidates, result[k].code)
                            < FirstSeen(Candidates, result[l].code)

\* C5 as amended: for every code on a candidate link with a non-empty name,
\* exactly one entry with that code is in the list, the first-seen candidate
\* with that code and a non-empty name; a code whose candidates all have an
\* empty name has no entry; no entry has an empty name and every entry is a
\* candidate; the list is in the page order of its entries.
C5_FirstNamedSurvives ==
    (list_call # None /\ ~list_call[1].failed) =>
        LET result == list_call[1].result
        IN  /\ \A i \in DOMAIN Candidates :
                   IF \E j \in DOMAIN Candidates :
                          Candidates[j].code = Candidates[i].code /\ Named(Candidates, j)
                   THEN /\ Cardinality(EntriesOf(result, Candidates[i].code)) = 1
                        /\ \A k \in EntriesOf(result, Candidates[i].code) :
                               result[k] =
                                   Candidates[FirstNamed(Candidates, Candidates[i].code)]
                   ELSE EntriesOf(result, Candidates[i].code) = {}
            /\ \A k \in DOMAIN result :
                   /\ result[k].name # <<>>
                   /\ \E i \in DOMAIN Candidates : Candidates[i] = result[k]
            /\ \A k, l \in DOMAIN result :
                   k < l => FirstNamed(Candidates, result[k].code)
                            < FirstNamed(Candidates, result[l].code)

C5_Witness ==
    /\ list_call # None /\ ~list_call[1].failed
    /\ Len(list_call[1].result) = 2
    /\ \E i, j \in DOMAIN Candidates :
           /\ i < j
           /\ Candidates[i].code = Candidates[j].code
           /\ ~Named(Candidates, i) /\ Named(Candidates, j)

\* the indicator occurrences of the input: countries, then categories, then
\* indicators
RECURSIVE Concat(_)
Concat(ss) == IF ss = <<>> THEN <<>> ELSE Head(ss) \o Concat(Tail(ss))
CategoryOccurrences(item) ==
    [i \in DOMAIN item[2] |->
        [code |-> item[2][i].code, name |-> item[2][i].name, category |-> item[1]]]
CountryOccurrences(country) ==
    Concat([k \in DOMAIN country.indicators |-> CategoryOccurrences(country.indicators[k])])
Occurrences(data) == Concat([c \in DOMAIN data |-> CountryOccurrences(data[c])])
FirstOccurrence(occ, code) ==
    CHOOSE i \in DOMAIN occ : occ[i].code = code /\ \A j \in 1..(i - 1) : occ[j].code # code

\* C6: for every indicator_code of the input, the indicators output holds
\* exactly one definition with that code, with the name and category of its
\* first occurrence (countries, then categories, then indicators), and the
\* definitions are in first-seen order.
C6_FirstDefinitionWins ==
    output # None =>
        LET defs == output[1].indicators
            occ  == Occurrences(countries_data)
        IN  /\ {defs[i].indicator_code : i \in DOMAIN defs} = {occ[i].code : i \in DOMAIN occ}
            /\ \A i, j \in DOMAIN defs :
                   defs[i].indicator_code = defs[j].indicator_code => i = j
            /\ \A i \in DOMAIN defs :
                   LET first == occ[FirstOccurrence(occ, defs[i].indicator_code)]
                   IN  defs[i].name = first.name /\ defs[i].category = first.category
            /\ \A i, j \in DOMAIN defs :
                   i < j => FirstOccurrence(occ, defs[i].indicator_code)
                            < FirstOccurrence(occ, defs[j].indicator_code)

C6_Witness ==
    /\ output # None
    /\ Len(output[1].indicators) >= 2
    /\ LET occ == Occurrences(countries_data)
       IN  \E i, j \in DOMAIN occ :
               /\ i < j
               /\ occ[i].code = occ[j].code
               /\ occ[i].name # occ[j].name
               /\ occ[i].category # occ[j].category

Successes(log) ==
    LET Ok(f) == f.data # None
        ok == SelectSeq(log, Ok)
    IN  [i \in DOMAIN ok |-> ok[i].data[1]]

\* C7 as stated: setup_data returns False only when create_database_from_data
\* failed; no failure of get_country_list or get_country_data ends the run in
\* failure without the load having been attempted.
C7_OnlyLoadFails ==
    (pc = "done" /\ ret = Some(FALSE)) => (call # None /\ ~call[1].result)

\* C7 as amended: setup_data returns False exactly when the country list is
\* empty, or no country among countries[:limit] gave a record, or
\* create_database_from_data returned False; the load is attempted exactly
\* when at least one country gave a record, so the failure of some of the
\* countries does not end the run.
C7_FailureCauses ==
    pc = "done" =>
        /\ ret # None
        /\ (call # None) <=> (Successes(fetched) # <<>>)
        /\ (ret = Some(FALSE)) <=>
               \/ countries = <<>>
               \/ Successes(fetched) = <<>>
               \/ (call # None /\ ~call[1].result)

C7_Witness ==
    /\ pc = "done"
    /\ ret = Some(FALSE)
    /\ call = None
    /\ Len(fetched) = 2

\* C8: a failure for one country gives no record for it and the loop goes
\* on: the records passed to process_data_for_db are exactly the countries
\* extracted among the first limit entries of the list, in list order.
C8_LoopContinues ==
    pc = "done" =>
        LET n == IF limit < Len(countries) THEN limit ELSE Len(countries)
        IN  /\ countries # <<>> =>
                /\ Len(fetched) = n
                /\ \A i \in 1..n : fetched[i].entry = countries[i]
            /\ Successes(fetched) # <<>> =>
                /\ output # None
                /\ countries_data = Successes(fetched)
                /\ CountryCodes(output[1])
                       = [i \in DOMAIN countries_data |-> countries_data[i].code]

C8_Witness ==
    /\ pc = "done"
    /\ output # None
    /\ Len(countries) > limit
    /\ Len(fetched) = 2
    /\ fetched[1].data = None
    /\ fetched[2].data # None

\* C9: between any two consecutive HTTP requests a pause occurs before the
\* later request, whether the earlier one succeeded or failed.
C9_PauseBetweenRequests ==
    \A i \in DOMAIN events :
        (i > 1 /\ events[i] = "request") => events[i - 1] = "sleep"

\* C10: if a step of create_database_from_data fails, no later step of that
\* load is entered and the call returns False; it returns True only when
\* every step it entered completed.
C10_FailureAborts ==
    call # None =>
        LET steps == call[1].steps
        IN  /\ \A i \in DOMAIN steps :
                   steps[i].raised => (i = Len(steps) /\ call[1].result = FALSE)
            /\ call[1].result = TRUE => \A i \in DOMAIN steps : ~steps[i].raised

C10_Witness ==
    /\ call # None
    /\ call[1].result = FALSE
    /\ call[1].args.indicator_values # <<>>
    /\ Len(call[1].steps) = 3
    /\ call[1].steps[3] = [step |-> "countries", raised |-> TRUE]

\* the value occurrences of the input, in iteration order
CategoryValueOccurrences(country_code, item) ==
    [i \in DOMAIN item[2] |->
        [country_code |-> country_code, indicator_code |-> item[2][i].code,
         value |-> item[2][i].value, year |-> item[2][i].year]]
CountryValueOccurrences(country) ==
    Concat([k \in DOMAIN country.indicators |->
               CategoryValueOccurrences(country.code, country.indicators[k])])
ValueOccurrences(data) == Concat([c \in DOMAIN data |-> CountryValueOccurrences(data[c])])

\* a text without the characters that are no digit, decimal point or minus sign
NumericChars == Range(Digits) \cup {".", "-"}
RECURSIVE Kept(_)
Kept(s) ==
    IF s = <<>> THEN <<>>
    ELSE (IF Head(s) \in NumericChars THEN <<Head(s)>> ELSE <<>>) \o Kept(Tail(s))

\* a decimal literal: sign, digits, at most one point, at least one digit
Parses(s) ==
    \E sign \in {<<>>, <<"-">>} :
    \E n \in 0..Len(s) :
    \E k \in 0..Len(s) :
        /\ n + k >= 1
        /\ \/ Len(s) = Len(sign) + n + k /\ k = 0
           \/ Len(s) = Len(sign) + n + 1 + k
        /\ SubSeq(s, 1, Len(sign)) = sign
        /\ \A i \in (Len(sign) + 1)..(Len(sign) + n) : s[i] \in Range(Digits)
        /\ Len(s) > Len(sign) + n => s[Len(sign) + n + 1] = "."
        /\ \A i \in (Len(sign) + n + 2)..Len(s) : s[i] \in Range(Digits)

Emitted(o) ==
    /\ o.value # None /\ o.year # None /\ o.year[1] # 0
    /\ Parses(Kept(o.value[1]))

Value314 == [m |-> 314, e |-> 2]
Texts314 == {<<"3", ".", "1", "4">>, <<"3", ".", "1", "4", "%">>, <<"$", "3", ".", "1", "4">>}
NoNumberTexts == {<<>>, <<"N", "/", "A">>}

RequestCodes == {BRA, ARG, <<"C", "H", "L">>}

GetCountryProfile(country_code) ==
    /\ \E response \in get_country_profile(store, country_code) :
           profile' = Some([code |-> country_code, response |-> response])
    /\ UNCHANGED <<store, call, all_ok, repeated, normalizerVars, listVars, setupVars>>

NextRoundTrip ==
    \/ NextLoader
    \/ \E country_code \in RequestCodes : GetCountryProfile(country_code)

SpecRoundTrip == InitLoader /\ [][NextRoundTrip]_vars

\* the entries of a profile, over its categories
ProfileEntries(response) ==
    Concat([k \in DOMAIN response.profile |-> response.profile[k][2]])

\* the value rows of a country and indicator among the rows loaded
LoadedRows(args, country_code, indicator_code) ==
    {i \in DOMAIN args.indicator_values :
        /\ args.indicator_values[i].country_code = country_code
        /\ args.indicator_values[i].indicator_code = indicator_code}

LoadedCountry(args, country_code) ==
    \E i \in DOMAIN args.countries : args.countries[i].country_code = country_code

\* C12: after a load that returned True, get_country_profile of a loaded
\* country returns, for each indicator with values loaded for that country,
\* exactly one entry, whose year is the greatest of that indicator's years
\* for the country and whose value is a value loaded for that year; the
\* same holds of the indicators and values the store holds after the load.
C12_ProfileLatest ==
    (call # None /\ call[1].result /\ profile # None
        /\ LoadedCountry(call[1].args, profile[1].code)) =>
        LET args    == call[1].args
            entries == ProfileEntries(profile[1].response)
        IN  /\ profile[1].response.status = 200
            /\ \A d \in DOMAIN args.indicators :
                   LET code   == args.indicators[d].indicator_code
                       loaded == LoadedRows(args, profile[1].code, code)
                       mine   == {k \in DOMAIN entries : entries[k].indicator_code = code}
                   IN  loaded # {} =>
                           /\ Cardinality(mine) = 1
                           /\ \A k \in mine :
                                  /\ \A i \in loaded :
                                         args.indicator_values[i].year <= entries[k].year
                                  /\ \E i \in loaded :
                                         /\ args.indicator_values[i].year = entries[k].year
                                         /\ args.indicator_values[i].value = entries[k].value
            \* and the same over the rows the store holds
            /\ \A d \in DOMAIN store.indicators.rows :
                   LET code == store.indicators.rows[d].indicator_code
                       held == {vd \in Joined(store, profile[1].code) : vd[2] = d}
                       mine == {k \in DOMAIN entries : entries[k].indicator_code = code}
                   IN  held # {} =>
                           /\ Cardinality(mine) = 1
                           /\ \A k \in mine :
                                  /\ \A vd \in held : JoinedYear(store, vd) <= entries[k].year
                                  /\ \E vd \in held :
                                         /\ JoinedYear(store, vd) = entries[k].year
                                         /\ store.indicator_values.rows[vd[1]].value
                                                = entries[k].value

C12_Witness ==
    /\ call # None /\ call[1].result /\ profile # None
    /\ profile[1].response.status = 200
    /\ Len(ProfileEntries(profile[1].response)) = 2
    /\ \E i, j \in LoadedRows(call[1].args, profile[1].code, <<"g", "d", "p">>) :
           call[1].args.indicator_values[i].year < call[1].args.indicator_values[j].year
    /\ \E k \in DOMAIN ProfileEntries(profile[1].response) :
           /\ ProfileEntries(profile[1].response)[k].indicator_code = <<"g", "d", "p">>
           /\ ProfileEntries(profile[1].response)[k].year = 2020
           /\ ProfileEntries(profile[1].response)[k].value = [m |-> 0 - 5, e |-> 0]

\* the rows of the three tables
Rows(s) == [name \in TableNames |-> s[name].rows]

\* C13: a call of create_database_from_data with the collections of the
\* call before it, under the same conditions, leaves the rows of the three
\* tables as that call left them, whatever the store held before.
C13_LoadIdempotent ==
    [][repeated' => Rows(store') = Rows(store)]_vars

C13_Witness ==
    /\ repeated
    /\ call # None /\ call[1].result
    /\ Len(call[1].args.countries) = 2
    /\ call[1].args.indicator_values # <<>>
    /\ Rows(store).indicator_values = call[1].args.indicator_values

=============================================================================
